---- MODULE Spec2Model ----
(***************************************************************************)
(* The pyuv_cffi Hub of guv (src/guv/hubs/pyuv_cffi.py): run/abort, the    *)
(* per-iteration drain of immediate callbacks, one-shot timers, fd         *)
(* listeners and the SIGINT handler, driven by the phases of the native    *)
(* loop (timers, idle, prepare, poll, closing).                            *)
(*                                                                         *)
(* User code is arbitrary: whenever it has control (outside run(), inside  *)
(* a callback the Hub invoked, or in the parent fiber after SIGINT) it may *)
(* call any Hub operation, any number of times, and a callback may return  *)
(* or raise.  A callback invocation is therefore a pair of steps, the call *)
(* and the wrapper's handling of its outcome, with the Hub operations the  *)
(* callback makes in between.                                              *)
(***************************************************************************)
EXTENDS Integers, Sequences, FiniteSets, TLC

\* Bounds of the model: how many callbacks, timers and listeners are created.
MaxCallbacks == 2
MaxTimers == 1
MaxListeners == 1
\* How many connections accept() returns.
MaxConns == 3

CbIds == 1..MaxCallbacks
TimerIds == 1..MaxTimers
ListenerIds == 1..MaxListeners

\* The peer addresses accept() reports.
Addrs == {"peer1", "peer2"}

\* The two list objects self.callbacks and the drain's local name can refer to.
ListRefs == {1, 2}
NoRef == 0

\* What a user callback does when it ends: return, or raise an exception that
\* is an Exception or only a BaseException (SystemExit, GreenletExit, ...).
Outcomes == {"none", "Exception", "BaseException"}

NoCall == [kind |-> "none", id |-> 0]

VARIABLES
    running,      \* Hub.running
    stopping,     \* Hub.stopping
    lists,        \* heap: the contents of each list object
    callbacks,    \* Hub.callbacks: the list object it refers to
    batch,        \* _fire_callbacks' local `callbacks`, NoRef outside a drain
    idx,          \* position of _fire_callbacks' for loop in the batch
    nextCb,       \* identity of the next callback schedule_call_now appends
    pc,           \* where the Hub greenlet is: "out" of run(), or a loop phase
    cur,          \* the user callback being executed, NoCall when none
    suspended,    \* the Hub greenlet is parked in parent.throw()
    stop_flag,    \* the loop's stop flag (Loop.stop)
    prepare_ref,  \* prepare_h.ref
    idle_active,  \* idle_h is started
    sig_active,   \* sig_h is started
    closing,      \* some closed handle still awaits the loop's closing phase
    timers,       \* per timer: the native handle and what happened to it
    nextTimer,    \* identity of the next Timer schedule_call_global creates
    lsn,          \* per listener: its handle field and the native poll handle
    nextListener, \* identity of the next listener add() creates
    listeners,    \* the Hub's active-listener set
    invoked,      \* history: the immediate callbacks invoked, in order
    drainFrom,    \* history: Len(invoked) when the current drain began
    drainSnap,    \* history: the pending queue when the current drain began
    drainNew,     \* history: nextCb when the current drain began
    raisedAt,     \* history: batch position of the last callback that raised
    escaped,      \* history: an exception left a wrapper into the engine
    exitBy,       \* history: why the last Loop.run ended, "none" once run()
                  \* has started it again: "idle", "stop" or "error"
    srv           \* the server harness (src/eventlet/server.py)

hubVars == <<running, stopping, exitBy>>
queueVars == <<lists, callbacks, nextCb>>
drainVars == <<batch, idx, invoked, drainFrom, drainSnap, drainNew, raisedAt>>
loopVars == <<stop_flag, prepare_ref, idle_active, sig_active, closing>>
timerVars == <<timers, nextTimer>>
listenerVars == <<lsn, nextListener, listeners>>
vars == <<running, stopping, lists, callbacks, batch, idx, nextCb, pc, cur,
          suspended, stop_flag, prepare_ref, idle_active, sig_active, closing,
          timers, nextTimer, lsn, nextListener, listeners, invoked, drainFrom,
          drainSnap, drainNew, raisedAt, escaped, exitBy, srv>>

----------------------------------------------------------------------------
\* Helpers

\* The pending queue: the contents of the list self.callbacks refers to.
Pending == lists[callbacks]

\* The callbacks the current drain has invoked so far, in order.
RanLog == SubSeq(invoked, drainFrom + 1, Len(invoked))

Range(s) == {s[i] : i \in 1..Len(s)}

NoDup(s) == \A i, j \in 1..Len(s) : i # j => s[i] # s[j]

\* User code has control: before/after run(), inside a callback, or in the
\* parent fiber while the Hub greenlet is parked.
UserCtx == pc = "out" \/ cur.kind # "none" \/ suspended

\* The engine (the Hub greenlet inside Loop.run) has control.
EngineCtx == pc # "out" /\ cur.kind = "none" /\ ~suspended

\* A timer: the native handle (armed, closed) and its history: how often the
\* user callback was entered, how often the handle was closed, whether the
\* callback raised, whether cancel() has returned, and whether it returned
\* before the callback was ever entered.
NewTimer == [created |-> FALSE, armed |-> FALSE, closed |-> FALSE,
             fired |-> 0, closes |-> 0, raised |-> FALSE,
             cancelled |-> FALSE, cancelledFirst |-> FALSE]

\* A listener: its handle field (non-null or null), the native poll handle
\* (ref, active, closed) and its history: how often the handle was closed,
\* the calls made on it in order, and how often remove() was called (up to 2).
NewListener == [created |-> FALSE, handle |-> FALSE, ref |-> FALSE,
                active |-> FALSE, closed |-> FALSE, closes |-> 0,
                log |-> <<>>, removes |-> 0, reported |-> FALSE]

\* Loop.run keeps iterating while a started, referencing handle (or a handle
\* that still has to be closed) exists.  sig_h is non-referencing (line 60).
LoopAlive ==
    \/ prepare_ref
    \/ idle_active
    \/ closing
    \/ \E t \in TimerIds : timers[t].armed /\ ~timers[t].closed
    \/ \E l \in ListenerIds : lsn[l].active /\ lsn[l].ref /\ ~lsn[l].closed

\* The server harness before it is constructed.  state: where start() is
\* ("none", "created", "accepting", "spawning", "returned", "raised");
\* pool: a pool was configured; conns: the address of each connection
\* accept() returned, in order (connection i is the i-th); dispatched: the
\* hand-offs _spawn made, in order; raised: the last exception raised inside
\* the accept loop; errors, stops: calls of handle_error's log and of stop().
NoServer == [state |-> "none", pool |-> FALSE, conns |-> <<>>,
             dispatched |-> <<>>, raised |-> "none", errors |-> 0,
             stops |-> 0]

----------------------------------------------------------------------------
Init ==
    /\ running = FALSE
    /\ stopping = FALSE
    /\ lists = [r \in ListRefs |-> <<>>]
    /\ callbacks = 1
    /\ batch = NoRef
    /\ idx = 0
    /\ nextCb = 1
    /\ pc = "out"
    /\ cur = NoCall
    /\ suspended = FALSE
    /\ stop_flag = FALSE
    /\ prepare_ref = TRUE
    /\ idle_active = FALSE
    /\ sig_active = TRUE
    /\ closing = FALSE
    /\ timers = [t \in TimerIds |-> NewTimer]
    /\ nextTimer = 1
    /\ lsn = [l \in ListenerIds |-> NewListener]
    /\ nextListener = 1
    /\ listeners = {}
    /\ invoked = <<>>
    /\ drainFrom = 0
    /\ drainSnap = <<>>
    /\ drainNew = 0
    /\ raisedAt = 0
    /\ escaped = FALSE
    /\ exitBy = "none"
    /\ srv = NoServer

----------------------------------------------------------------------------
\* Hub.run and Hub.abort

\* A run() that looks at stopping only.
run_outcome_unguarded(r, s) == IF s THEN "returned" ELSE "started"

\* Lines 75-79: what a run() call does first, given the two flags.
run_outcome(r, s) ==
    IF s THEN "returned" ELSE IF r THEN "raised" ELSE "started"

\* run(): returns at once when stopping, raises RuntimeError when running,
\* otherwise sets the flags and enters Loop.run (pc = "loop").  It is called
\* on the Hub greenlet (line 73).
run ==
    /\ UserCtx
    /\ ~suspended
    /\ IF run_outcome(running, stopping) = "started"
       THEN /\ running' = TRUE
            /\ stopping' = FALSE
            /\ pc' = "loop"
            /\ exitBy' = "none"
       ELSE UNCHANGED <<running, stopping, pc, exitBy>>
    /\ UNCHANGED <<queueVars, drainVars, loopVars, timerVars, listenerVars,
                   cur, suspended, escaped>>
    /\ UNCHANGED srv

\* A reset that an except-less, finally-less run() would do: only when
\* Loop.run returned.
run_exit_flags_no_finally(r, s, failed) ==
    IF failed THEN [running |-> r, stopping |-> s]
    ELSE [running |-> FALSE, stopping |-> FALSE]

\* Lines 86-88: the flags after the finally clause, whether Loop.run
\* returned or raised.
run_exit_flags(r, s, failed) == [running |-> FALSE, stopping |-> FALSE]

\* The finally clause of run(), once Loop.run has returned ("finally") or
\* raised ("failed"); in the second case the exception goes on to the caller.
run_finally ==
    /\ pc \in {"finally", "failed"}
    /\ LET f == run_exit_flags(running, stopping, pc = "failed")
       IN /\ running' = f.running
          /\ stopping' = f.stopping
    /\ pc' = "out"
    /\ UNCHANGED <<exitBy, queueVars, drainVars, loopVars, timerVars,
                   listenerVars, cur, suspended, escaped>>
    /\ UNCHANGED srv

\* The value abort() leaves in stopping.
abort_stopping_unconditional(r, s) == TRUE

abort_stopping(r, s) == IF r THEN TRUE ELSE s

\* An abort() that leaves the engine running.
abort_effect_no_stop ==
    /\ stopping' = abort_stopping(running, stopping)
    /\ stop_flag' = stop_flag

\* Lines 93-96: the flag, then Loop.stop().
abort_effect ==
    /\ stopping' = abort_stopping(running, stopping)
    /\ stop_flag' = TRUE

abort ==
    /\ UserCtx
    /\ abort_effect
    /\ UNCHANGED <<running, exitBy, queueVars, drainVars, prepare_ref,
                   idle_active, sig_active, closing, timerVars, listenerVars,
                   pc, cur, suspended, escaped>>
    /\ UNCHANGED srv

----------------------------------------------------------------------------
\* schedule_call_now and the per-iteration drain

schedule_call_now ==
    /\ UserCtx
    /\ nextCb <= MaxCallbacks
    /\ lists' = [lists EXCEPT ![callbacks] = Append(@, nextCb)]
    /\ nextCb' = nextCb + 1
    /\ UNCHANGED <<hubVars, callbacks, drainVars, loopVars, timerVars,
                   listenerVars, pc, cur, suspended, escaped>>
    /\ UNCHANGED srv

OtherRef(r) == IF r = 1 THEN 2 ELSE 1

\* A drain that keeps iterating the list self.callbacks still refers to.
swap_callbacks_aliased(h, c) == [lists |-> h, callbacks |-> c, batch |-> c]

\* Lines 104-105: the local name takes the pending list and self.callbacks
\* becomes a new, empty list.
swap_callbacks(h, c) ==
    [lists |-> [h EXCEPT ![OtherRef(c)] = <<>>],
     callbacks |-> OtherRef(c),
     batch |-> c]

fire_callbacks_begin ==
    /\ EngineCtx
    /\ pc = "prepare"
    /\ LET s == swap_callbacks(lists, callbacks)
       IN /\ lists' = s.lists
          /\ callbacks' = s.callbacks
          /\ batch' = s.batch
    /\ idx' = 1
    /\ drainFrom' = Len(invoked)
    /\ drainSnap' = Pending
    /\ drainNew' = nextCb
    /\ raisedAt' = 0
    /\ pc' = "drain"
    /\ UNCHANGED <<hubVars, nextCb, invoked, loopVars, timerVars,
                   listenerVars, cur, suspended, escaped>>
    /\ UNCHANGED srv

\* A loop that takes the entries from the end of the list.
batch_entry_reversed(b, i) == b[Len(b) + 1 - i]

\* Line 106: the i-th entry the for loop takes from the list b.
batch_entry(b, i) == b[i]

\* The for loop takes the next entry of the batch and calls it.
fire_callbacks_call ==
    /\ EngineCtx
    /\ pc = "drain"
    /\ idx <= Len(lists[batch])
    /\ cur' = [kind |-> "now", id |-> batch_entry(lists[batch], idx)]
    /\ invoked' = Append(invoked, batch_entry(lists[batch], idx))
    /\ UNCHANGED <<hubVars, queueVars, batch, idx, drainFrom, drainSnap,
                   drainNew, raisedAt, loopVars, timerVars, listenerVars, pc,
                   suspended, escaped>>
    /\ UNCHANGED srv

\* A handler that lets BaseException through.
except_all_but_base(e) == IF e = "Exception" THEN "none" ELSE e

\* The bare `except:` of the Hub's wrappers: what still propagates.
except_all(e) == "none"

\* A try statement without a handler for the exception.
except_nothing(e) == e

\* `except Exception` around remove() in poll_cb.
except_Exception(e) == IF e = "Exception" THEN "none" ELSE e

\* The callback ends with outcome e; lines 107-110 handle it.
fire_callbacks_return ==
    /\ pc = "drain"
    /\ cur.kind = "now"
    /\ \E e \in Outcomes :
        /\ raisedAt' = IF e # "none" THEN idx ELSE raisedAt
        /\ IF except_all(e) = "none"
           THEN /\ idx' = idx + 1
                /\ UNCHANGED <<pc, batch, escaped>>
           ELSE \* the exception leaves _fire_callbacks: the drain is over
                /\ escaped' = TRUE
                /\ pc' = "poll"
                /\ batch' = NoRef
                /\ idx' = 0
    /\ cur' = NoCall
    /\ UNCHANGED <<hubVars, queueVars, invoked, drainFrom, drainSnap,
                   drainNew, loopVars, timerVars, listenerVars, suspended>>
    /\ UNCHANGED srv

\* Lines 116-121, after the for loop.
\* Lines 116-117: the idle handle is started when the new list is non-empty.
idle_start(active, q) == active \/ q # <<>>

\* A drain that always leaves the prepare handle referencing.
prepare_ref_kept(q) == TRUE

\* Line 121: prepare_h.ref = bool(self.callbacks).
prepare_ref_after(q) == q # <<>>

fire_callbacks_end ==
    /\ EngineCtx
    /\ pc = "drain"
    /\ idx > Len(lists[batch])
    /\ idle_active' = idle_start(idle_active, Pending)
    /\ prepare_ref' = prepare_ref_after(Pending)
    /\ batch' = NoRef
    /\ idx' = 0
    /\ pc' = "poll"
    /\ drainFrom' = Len(invoked)
    /\ drainSnap' = <<>>
    /\ drainNew' = 0
    /\ raisedAt' = 0
    /\ UNCHANGED <<hubVars, queueVars, invoked, stop_flag, sig_active,
                   closing, timerVars, listenerVars, cur, suspended, escaped>>
    /\ UNCHANGED srv

----------------------------------------------------------------------------
\* Timers: schedule_call_global, Timer.cancel and the wrapped timer callback

\* Lines 139-142: a new native timer, started one-shot (repeat 0).
schedule_call_global ==
    /\ UserCtx
    /\ nextTimer <= MaxTimers
    /\ timers' = [timers EXCEPT ![nextTimer] =
                     [@ EXCEPT !.created = TRUE, !.armed = TRUE]]
    /\ nextTimer' = nextTimer + 1
    /\ UNCHANGED <<hubVars, queueVars, drainVars, loopVars, listenerVars, pc,
                   cur, suspended, escaped>>
    /\ UNCHANGED srv

\* stop() and close() of a native timer handle.
stop_and_close(h) ==
    [h EXCEPT !.armed = FALSE, !.closed = TRUE, !.closes = @ + 1]

\* cancel() that leaves the native handle alone.
timer_cancel_noop(h) == h

\* Timer.cancel, lines 40-43, on the native handle.
timer_cancel(h) == IF ~h.closed THEN stop_and_close(h) ELSE h

cancel(t) ==
    /\ UserCtx
    /\ timers[t].created
    /\ LET h == timer_cancel(timers[t])
       IN /\ timers' = [timers EXCEPT ![t] =
                 [h EXCEPT !.cancelled = TRUE,
                           !.cancelledFirst = @ \/ timers[t].fired = 0]]
          /\ closing' = (closing \/ h.closes > timers[t].closes)
    /\ UNCHANGED <<hubVars, queueVars, drainVars, stop_flag, prepare_ref,
                   idle_active, sig_active, nextTimer, listenerVars, pc, cur,
                   suspended, escaped>>
    /\ UNCHANGED srv

\* The loop's timer phase runs a due timer: a one-shot timer is stopped by
\* the engine before its callback (timer_callback, line 128) is entered.
timer_callback_call(t) ==
    /\ EngineCtx
    /\ pc = "timers"
    /\ timers[t].armed
    /\ ~timers[t].closed
    /\ timers' = [timers EXCEPT ![t] =
                     [@ EXCEPT !.armed = FALSE, !.fired = @ + 1]]
    /\ cur' = [kind |-> "timer", id |-> t]
    /\ UNCHANGED <<hubVars, queueVars, drainVars, loopVars, nextTimer,
                   listenerVars, pc, suspended, escaped>>
    /\ UNCHANGED srv

\* Cleanup of the wrapper without the closed test.
timer_cleanup_unguarded(h) == stop_and_close(h)

\* Lines 134-137: the wrapper's cleanup of its handle.
timer_cleanup(h) == IF ~h.closed THEN stop_and_close(h) ELSE h

\* The user callback ends with outcome e; lines 129-137 handle it.
timer_callback_return ==
    /\ cur.kind = "timer"
    /\ \E e \in Outcomes :
        IF except_all(e) = "none"
        THEN LET h == timer_cleanup(timers[cur.id])
             IN /\ timers' = [timers EXCEPT ![cur.id] =
                       [h EXCEPT !.raised = (e # "none")]]
                /\ closing' = (closing \/ h.closes > timers[cur.id].closes)
                /\ UNCHANGED escaped
        ELSE /\ escaped' = TRUE
             /\ UNCHANGED <<timers, closing>>
    /\ cur' = NoCall
    /\ UNCHANGED <<hubVars, queueVars, drainVars, stop_flag, prepare_ref,
                   idle_active, sig_active, nextTimer, listenerVars, pc,
                   suspended>>
    /\ UNCHANGED srv

----------------------------------------------------------------------------
\* Listeners: add, remove and the wrapped poll callback

\* AbstractHub._add_listener / _remove_listener: the active-listener set.
add_listener(set, l) == set \cup {l}

remove_listener(set, l) == set \ {l}

\* Lines 145-175: a new poll handle (referencing by default), the listener
\* stored in the active set, the handle started.
add ==
    /\ UserCtx
    /\ nextListener <= MaxListeners
    /\ lsn' = [lsn EXCEPT ![nextListener] =
                  [@ EXCEPT !.created = TRUE, !.handle = TRUE, !.ref = TRUE,
                            !.active = TRUE, !.log = <<"start">>]]
    /\ listeners' = add_listener(listeners, nextListener)
    /\ nextListener' = nextListener + 1
    /\ UNCHANGED <<hubVars, queueVars, drainVars, loopVars, timerVars, pc,
                   cur, suspended, escaped>>
    /\ UNCHANGED srv

\* Teardowns that a slip in remove() would produce.
teardown_keeps_reference == <<"unref", "stop", "close">>

teardown_close_first == <<"close", "unref", "stop", "null">>

teardown_without_close == <<"unref", "stop", "null">>

\* Lines 187-190: the statements of remove() after _remove_listener.
teardown == <<"unref", "stop", "close", "null">>

\* One statement of the teardown applied to a listener.
apply_op(x, op) ==
    LET y == [x EXCEPT !.log = Append(@, op)]
    IN CASE op = "unref" -> [y EXCEPT !.ref = FALSE]
         [] op = "stop" -> [y EXCEPT !.active = FALSE]
         [] op = "close" -> [y EXCEPT !.active = FALSE, !.closed = TRUE,
                                      !.closes = @ + 1]
         [] op = "null" -> [y EXCEPT !.handle = FALSE]

RECURSIVE apply_ops(_, _)
apply_ops(x, ops) ==
    IF ops = <<>> THEN x ELSE apply_ops(apply_op(x, Head(ops)), Tail(ops))

\* remove(listener) raises (AttributeError at line 187) when the listener's
\* handle reference is null.
remove_raises(l) == ~lsn[l].handle

remove_exception(l) == IF remove_raises(l) THEN "Exception" ELSE "none"

\* The listener after remove(listener).
remove_result(l) ==
    LET x == [lsn[l] EXCEPT !.removes = IF @ < 2 THEN @ + 1 ELSE @]
    IN IF remove_raises(l) THEN x ELSE apply_ops(x, teardown)

\* remove(listener), lines 183-190, as changes to the listener state.
remove_effect(l) ==
    /\ listeners' = remove_listener(listeners, l)
    /\ lsn' = [lsn EXCEPT ![l] = remove_result(l)]
    /\ closing' = (closing \/ remove_result(l).closes > lsn[l].closes)

remove(l) ==
    /\ UserCtx
    /\ lsn[l].created
    /\ remove_effect(l)
    /\ UNCHANGED <<hubVars, queueVars, drainVars, stop_flag, prepare_ref,
                   idle_active, sig_active, timerVars, nextListener, pc, cur,
                   suspended, escaped>>
    /\ UNCHANGED srv

\* The loop's poll phase reports the fd of a started poll handle ready:
\* poll_cb (line 148) is entered.
poll_cb_call(l) ==
    /\ EngineCtx
    /\ pc = "poll"
    /\ lsn[l].active
    /\ ~lsn[l].closed
    /\ cur' = [kind |-> "poll", id |-> l]
    /\ UNCHANGED <<hubVars, queueVars, drainVars, loopVars, timerVars,
                   listenerVars, pc, suspended, escaped>>
    /\ UNCHANGED srv

\* Lines 164-166: an Exception of remove() is written to stderr.
report(x, e) ==
    [x EXCEPT !.reported = @ \/ (e # "none" /\ except_Exception(e) = "none")]

\* The user callback ends with outcome e; lines 157-166 handle it: squelch,
\* then remove(listener), whose own exception is written to stderr.
poll_cb_return ==
    /\ cur.kind = "poll"
    /\ \E e \in Outcomes :
        IF e = "none"
        THEN UNCHANGED <<listenerVars, closing, escaped>>
        ELSE IF except_all(e) = "none"
        THEN /\ listeners' = remove_listener(listeners, cur.id)
             /\ lsn' = [lsn EXCEPT ![cur.id] =
                           report(remove_result(cur.id),
                                  remove_exception(cur.id))]
             /\ closing' =
                   (closing \/ remove_result(cur.id).closes > lsn[cur.id].closes)
             /\ escaped' = (escaped \/
                  except_Exception(remove_exception(cur.id)) # "none")
             /\ UNCHANGED nextListener
        ELSE /\ escaped' = TRUE
             /\ UNCHANGED <<listenerVars, closing>>
    /\ cur' = NoCall
    /\ UNCHANGED <<hubVars, queueVars, drainVars, stop_flag, prepare_ref,
                   idle_active, sig_active, timerVars, pc, suspended>>
    /\ UNCHANGED srv

----------------------------------------------------------------------------
\* SIGINT

\* A handler that raises into the parent before anything else.
signal_steps_throw_first == <<"throw", "stop_handle", "abort">>

\* Lines 204-206: the statements of signal_received for SIGINT, in order.
signal_steps == <<"stop_handle", "abort", "throw">>

\* The statements that have run when parent.throw() switches away from the
\* Hub greenlet.
RECURSIVE before_throw(_)
before_throw(ops) ==
    IF ops = <<>> \/ Head(ops) = "throw" THEN {}
    ELSE {Head(ops)} \cup before_throw(Tail(ops))

\* signal_received, lines 203-206: stop the signal handle, abort(), throw
\* KeyboardInterrupt into the parent: the Hub greenlet is left parked there.
signal_received ==
    /\ EngineCtx
    /\ pc = "poll"
    /\ sig_active
    /\ sig_active' = ("stop_handle" \notin before_throw(signal_steps))
    /\ IF "abort" \in before_throw(signal_steps)
       THEN abort_effect
       ELSE UNCHANGED <<stopping, stop_flag>>
    /\ suspended' = TRUE
    /\ UNCHANGED <<running, exitBy, queueVars, drainVars, prepare_ref,
                   idle_active, closing, timerVars, listenerVars, pc, cur,
                   escaped>>
    /\ UNCHANGED srv

\* Some fiber switches back to the Hub: signal_received returns to the loop.
resume ==
    /\ suspended
    /\ suspended' = FALSE
    /\ UNCHANGED <<hubVars, queueVars, drainVars, loopVars, timerVars,
                   listenerVars, pc, cur, escaped>>
    /\ UNCHANGED srv

----------------------------------------------------------------------------
\* The phases of Loop.run

\* The loop condition: iterate while alive and not asked to stop.
loop_iterate ==
    /\ EngineCtx
    /\ pc = "loop"
    /\ LoopAlive /\ ~stop_flag
    /\ pc' = "timers"
    /\ UNCHANGED <<hubVars, queueVars, drainVars, loopVars, timerVars,
                   listenerVars, cur, suspended, escaped>>
    /\ UNCHANGED srv

\* Loop.run returns; the stop flag is cleared on the way out.
loop_return ==
    /\ EngineCtx
    /\ pc = "loop"
    /\ ~(LoopAlive /\ ~stop_flag)
    /\ stop_flag' = FALSE
    /\ pc' = "finally"
    /\ exitBy' = IF stop_flag THEN "stop" ELSE "idle"
    /\ UNCHANGED <<running, stopping, queueVars, drainVars, prepare_ref,
                   idle_active, sig_active, closing, timerVars, listenerVars,
                   cur, suspended, escaped>>
    /\ UNCHANGED srv

\* Loop.run raises instead of returning (an error of the engine).
loop_raise ==
    /\ EngineCtx
    /\ pc \in {"loop", "poll"}
    /\ pc' = "failed"
    /\ exitBy' = "error"
    /\ UNCHANGED <<running, stopping, queueVars, drainVars, loopVars,
                   timerVars, listenerVars, cur, suspended, escaped>>
    /\ UNCHANGED srv

loop_timers_done ==
    /\ EngineCtx
    /\ pc = "timers"
    /\ pc' = "idle"
    /\ UNCHANGED <<hubVars, queueVars, drainVars, loopVars, timerVars,
                   listenerVars, cur, suspended, escaped>>
    /\ UNCHANGED srv

\* _idle_cb, lines 69-70: the idle handle stops itself when it runs.
idle_cb ==
    /\ EngineCtx
    /\ pc = "idle"
    /\ idle_active
    /\ idle_active' = FALSE
    /\ pc' = "prepare"
    /\ UNCHANGED <<hubVars, queueVars, drainVars, stop_flag, prepare_ref,
                   sig_active, closing, timerVars, listenerVars, cur,
                   suspended, escaped>>
    /\ UNCHANGED srv

loop_idle_skip ==
    /\ EngineCtx
    /\ pc = "idle"
    /\ ~idle_active
    /\ pc' = "prepare"
    /\ UNCHANGED <<hubVars, queueVars, drainVars, loopVars, timerVars,
                   listenerVars, cur, suspended, escaped>>
    /\ UNCHANGED srv

\* End of the poll phase; the closing phase finishes the closed handles.
loop_poll_done ==
    /\ EngineCtx
    /\ pc = "poll"
    /\ closing' = FALSE
    /\ pc' = "loop"
    /\ UNCHANGED <<hubVars, queueVars, drainVars, stop_flag, prepare_ref,
                   idle_active, sig_active, timerVars, listenerVars, cur,
                   suspended, escaped>>
    /\ UNCHANGED srv

----------------------------------------------------------------------------
\* The server harness: AbstractServer and ServerLoop (src/eventlet/server.py)

hubState == <<running, stopping, lists, callbacks, batch, idx, nextCb, pc,
              cur, suspended, stop_flag, prepare_ref, idle_active, sig_active,
              closing, timers, nextTimer, lsn, nextListener, listeners,
              invoked, drainFrom, drainSnap, drainNew, raisedAt, escaped,
              exitBy>>

\* What accept() or the dispatch can raise besides returning.
ServerExceptions == {"StopServe", "OSError"}

\* AbstractServer.__init__, lines 63-79: with or without a pool.
server_init ==
    /\ srv.state = "none"
    /\ \E p \in BOOLEAN : srv' = [srv EXCEPT !.state = "created", !.pool = p]
    /\ UNCHANGED hubState

\* start() enters its loop, lines 118-119.
server_start ==
    /\ srv.state = "created"
    /\ srv' = [srv EXCEPT !.state = "accepting"]
    /\ UNCHANGED hubState

\* handle_error, lines 92-94: the error log, then stop().
handle_error(x) == [x EXCEPT !.errors = @ + 1, !.stops = @ + 1]

\* A loop whose handler takes StopServe for any other exception.
start_except_all_fatal(e) == "fatal"

\* Lines 123-125: what start() does with an exception raised in its try
\* block: return for StopServe; anything else is not caught.
start_except(e) == IF e = "StopServe" THEN "return" ELSE "propagate"

\* The harness after exception e was raised inside the accept loop.
server_raise(x, e) ==
    LET y == [x EXCEPT !.raised = e]
    IN CASE start_except(e) = "return" -> [y EXCEPT !.state = "returned"]
         [] start_except(e) = "fatal" ->
                [handle_error(y) EXCEPT !.state = "returned"]
         [] start_except(e) = "propagate" -> [y EXCEPT !.state = "raised"]

\* Line 121: accept() returns a connection with its address, or raises.
server_accept ==
    /\ srv.state = "accepting"
    /\ \/ /\ Len(srv.conns) < MaxConns
          /\ \E a \in Addrs :
                srv' = [srv EXCEPT !.conns = Append(@, a),
                                   !.state = "spawning"]
       \/ \E e \in ServerExceptions : srv' = server_raise(srv, e)
    /\ UNCHANGED hubState

\* A _spawn without the else: the pool's spawn is called as well.
spawn_calls_falls_through(pool, sock, addr) ==
    IF ~pool
    THEN <<[via |-> "switch", sock |-> sock, addr |-> addr],
           [via |-> "spawn", sock |-> sock, addr |-> addr]>>
    ELSE <<[via |-> "spawn", sock |-> sock, addr |-> addr]>>

\* _spawn, lines 104-108: the hand-offs of (sock, addr) to the handler.
spawn_calls(pool, sock, addr) ==
    IF ~pool
    THEN <<[via |-> "switch", sock |-> sock, addr |-> addr]>>
    ELSE <<[via |-> "spawn", sock |-> sock, addr |-> addr]>>

\* Line 122: _spawn of the connection just accepted; the hand-off returns or
\* an exception comes out of it.
server_spawn ==
    /\ srv.state = "spawning"
    /\ LET n == Len(srv.conns)
           x == [srv EXCEPT !.dispatched =
                    @ \o spawn_calls(srv.pool, n, srv.conns[n])]
       IN \/ srv' = [x EXCEPT !.state = "accepting"]
          \/ \E e \in ServerExceptions : srv' = server_raise(x, e)
    /\ UNCHANGED hubState

ServerNext ==
    \/ server_init
    \/ server_start
    \/ server_accept
    \/ server_spawn

ServerSpec == Init /\ [][ServerNext]_vars

----------------------------------------------------------------------------
Next ==
    \/ run
    \/ run_finally
    \/ abort
    \/ schedule_call_now
    \/ fire_callbacks_begin
    \/ fire_callbacks_call
    \/ fire_callbacks_return
    \/ fire_callbacks_end
    \/ schedule_call_global
    \/ \E t \in TimerIds : cancel(t)
    \/ \E t \in TimerIds : timer_callback_call(t)
    \/ timer_callback_return
    \/ add
    \/ \E l \in ListenerIds : remove(l)
    \/ \E l \in ListenerIds : poll_cb_call(l)
    \/ poll_cb_return
    \/ signal_received
    \/ resume
    \/ loop_iterate
    \/ loop_return
    \/ loop_raise
    \/ loop_timers_done
    \/ idle_cb
    \/ loop_idle_skip
    \/ loop_poll_done

Spec == Init /\ [][Next]_vars

\* The steps the Hub greenlet takes by itself while it has control: the
\* phases of Loop.run, the drain, and run()'s finally clause.
EngineStep ==
    \/ loop_iterate
    \/ loop_return
    \/ loop_timers_done
    \/ idle_cb
    \/ loop_idle_skip
    \/ fire_callbacks_begin
    \/ fire_callbacks_call
    \/ fire_callbacks_end
    \/ run_finally

\* A user callback that was entered ends.
CallbackReturn ==
    \/ fire_callbacks_return
    \/ timer_callback_return
    \/ poll_cb_return

\* Fairness of the single Hub thread: the loop goes on while the Hub greenlet
\* has control, user callbacks end, and a poll phase handles finitely many
\* events.  Nothing makes another fiber switch back to a parked Hub greenlet,
\* and nothing makes user code call the Hub.
FairSpec ==
    /\ Spec
    /\ WF_vars(EngineStep)
    /\ WF_vars(CallbackReturn)
    /\ SF_vars(loop_poll_done)

----------------------------------------------------------------------------
\* Properties

\* The drain's for loop has gone through its batch.
DrainLoopDone == pc = "drain" /\ cur.kind = "none" /\ idx > Len(lists[batch])

\* The callbacks schedule_call_now appended since the current drain began.
ScheduledThisDrain ==
    IF pc = "drain" THEN {c \in CbIds : drainNew <= c /\ c < nextCb} ELSE {}

\* C1: a callback that schedule_call_now appends while a drain is executing
\* its batch is not invoked by that drain.
C1_NoSamePassExecution ==
    pc = "drain" => Range(RanLog) \cap ScheduledThisDrain = {}

\* A drain has run its whole batch and a callback of it scheduled another one,
\* which is still pending.
C1_Witness ==
    /\ DrainLoopDone
    /\ RanLog # <<>>
    /\ ScheduledThisDrain # {}
    /\ ScheduledThisDrain \subseteq Range(Pending)

\* C2: the loop never returns for lack of work (that is, without abort()
\* having stopped it) while a scheduled callback is still in the pending
\* queue.
C2_NoCallbackLostAtExit ==
    [][(pc = "loop" /\ pc' = "finally" /\ ~stop_flag) => Pending = <<>>]_vars

\* C3: a drain invokes the callbacks that were pending when it began, in the
\* order schedule_call_now appended them, each once, and they are no longer in
\* the pending queue.
C3_DrainFifoOnce ==
    /\ NoDup(invoked)
    /\ pc = "drain" =>
        /\ Len(RanLog) <= Len(drainSnap)
        /\ RanLog = SubSeq(drainSnap, 1, Len(RanLog))
        /\ Len(RanLog) = (IF cur.kind = "now" THEN idx ELSE idx - 1)
        /\ Range(Pending) \cap Range(drainSnap) = {}
    /\ DrainLoopDone => RanLog = drainSnap

\* A drain has invoked a batch of two callbacks.
C3_Witness == DrainLoopDone /\ Len(drainSnap) >= 2 /\ RanLog = drainSnap

\* C4: no exception of a user callback leaves a wrapper of the Hub, and a
\* drain goes on with the callbacks after one that raised.
C4_ExceptionsContained ==
    /\ ~escaped
    /\ (pc = "drain" /\ raisedAt > 0) =>
        /\ batch # NoRef
        /\ idx >= raisedAt
        /\ DrainLoopDone => Len(RanLog) = Len(lists[batch])

\* The first callback of a drain raised and the second one was invoked.
C4_Witness == pc = "drain" /\ raisedAt = 1 /\ Len(RanLog) = 2 /\ ~escaped

\* remove() has been called on the listener and has torn it down.
Removed(l) == lsn[l].created /\ ~lsn[l].handle

\* C5: no poll handle is closed twice, and when every listener that was added
\* has been removed the active-listener set is empty.
C5_NoDoubleClose ==
    /\ \A l \in ListenerIds : lsn[l].closes <= 1
    /\ (\A l \in ListenerIds : lsn[l].created => Removed(l)) => listeners = {}

\* remove() was called twice on a listener, its handle was closed once.
C5_Witness ==
    \E l \in ListenerIds :
        lsn[l].removes = 2 /\ lsn[l].closes = 1 /\ listeners = {}

\* C6: the calls remove() makes on a listener's handle are unref, stop, close
\* and then the nulling of the reference, in that order; the listener is then
\* out of the active set.
C6_TeardownOrder ==
    \A l \in ListenerIds :
        lsn[l].created =>
            \/ lsn[l].log = <<"start">> /\ lsn[l].handle
            \/ /\ lsn[l].log = <<"start", "unref", "stop", "close", "null">>
               /\ l \notin listeners

\* A listener has been removed.
C6_Witness ==
    \E l \in ListenerIds : Len(lsn[l].log) = 5 /\ lsn[l].removes = 1

\* C7: a listener is in the active set exactly while its handle is non-null,
\* started and not closed; out of the set its handle is null, stopped and
\* closed.
C7_HandleOpenIffActive ==
    \A l \in ListenerIds :
        lsn[l].created =>
            IF l \in listeners
            THEN lsn[l].handle /\ lsn[l].active /\ ~lsn[l].closed
            ELSE ~lsn[l].handle /\ ~lsn[l].active /\ lsn[l].closed

\* A listener was added and then removed while the Hub runs.
C7_Witness ==
    \E l \in ListenerIds :
        lsn[l].created /\ l \notin listeners /\ lsn[l].closed /\ running

\* C8: a timer's callback is entered at most once, and never when cancel()
\* returned before it was entered.
C8_TimerAtMostOnce ==
    \A t \in TimerIds :
        /\ timers[t].fired <= 1
        /\ ~(timers[t].cancelledFirst /\ timers[t].fired > 0)

\* A timer was cancelled while armed and the loop's timer phase has passed.
C8_Witness ==
    \E t \in TimerIds : timers[t].cancelledFirst /\ pc = "idle"

\* C9: a timer's handle is closed at most once, and exactly once as soon as
\* its wrapped callback has finished or cancel() has returned.
C9_TimerClosedOnce ==
    \A t \in TimerIds :
        /\ timers[t].closes <= 1
        /\ (timers[t].cancelled \/
            (timers[t].fired > 0 /\ cur # [kind |-> "timer", id |-> t])) =>
               timers[t].closes = 1 /\ timers[t].closed /\ ~timers[t].armed

\* A timer fired, its callback raised, and cancel() was called on it too.
C9_Witness ==
    \E t \in TimerIds :
        /\ timers[t].fired = 1
        /\ timers[t].raised
        /\ timers[t].cancelled
        /\ timers[t].closes = 1
        /\ cur.kind = "none"

\* C10: running holds only inside a run() call, and stopping only while
\* running.
C10_FlagsInvariant ==
    /\ running => pc # "out"
    /\ stopping => running

\* abort() was called by a callback while the loop runs.
C10_Witness == stopping /\ running /\ cur.kind # "none"

\* C11: once a run() call that started the loop has ended, whether the loop
\* went idle, was stopped by abort() or raised, running and stopping are both
\* false, so the next run() call starts the loop.
C11_RunExitResets ==
    /\ exitBy # "none" =>
        (pc \in {"finally", "failed"} \/
         (pc = "out" /\ ~running /\ ~stopping))
    /\ pc = "out" => run_outcome(running, stopping) = "started"

\* A run() during which abort() was called ended with an engine error.
C11_Witness == pc = "out" /\ exitBy = "error" /\ stop_flag

\* The run() call has returned with both flags reset.
RunReturned == pc = "out" /\ ~running /\ ~stopping

\* C12 as claimed: whenever abort() has set stopping during an active run(),
\* that run() call eventually returns with both flags reset.
C12_AbortedRunReturns == stopping ~> RunReturned

\* C12, amended: abort() sets stopping exactly when the Hub is running, always
\* asks the engine to stop, and the aborted run() call returns with both flags
\* reset provided the Hub greenlet is not left parked forever in the SIGINT
\* handler.
C12_AbortStopsRun ==
    /\ [](stopping => (stop_flag \/ pc \in {"finally", "failed"}))
    /\ [][(stopping' /\ ~stopping) => (running /\ stop_flag')]_vars
    /\ [][(stop_flag' /\ ~stop_flag) => (stopping' = running)]_vars
    /\ ([]<>~suspended) => (stopping ~> RunReturned)

\* Loop.run has returned after an abort() made by a callback.
C12_Witness ==
    pc = "finally" /\ stopping /\ exitBy = "stop" /\ sig_active

\* C13: when StopServe is raised inside the accept loop, start() returns
\* normally, without the error log or stop(), and accepts nothing more.
C13_StopServeEndsStart ==
    /\ [](srv.raised = "StopServe" =>
            srv.state = "returned" /\ srv.errors = 0 /\ srv.stops = 0)
    /\ [][srv.state = "returned" => srv' = srv]_vars

\* StopServe ended start() after two connections were dispatched.
C13_Witness ==
    /\ srv.raised = "StopServe"
    /\ srv.state = "returned"
    /\ Len(srv.dispatched) = 2

\* C14: when any exception other than StopServe is raised inside the accept
\* loop, it is logged, stop() is called and start() ends.
C14_OtherExceptionIsFatal ==
    srv.raised \notin {"none", "StopServe"} =>
        /\ srv.errors = 1
        /\ srv.stops = 1
        /\ srv.state \in {"returned", "raised"}

\* The hand-off _spawn has to make for connection i.
Dispatch(i) ==
    [via |-> IF srv.pool THEN "spawn" ELSE "switch", sock |-> i,
     addr |-> srv.conns[i]]

\* C15: every accepted connection is handed to the handler once, with its own
\* socket and address, by the one mechanism the harness was configured with,
\* and before accept() is called again.
C15_DispatchedExactlyOnce ==
    /\ Len(srv.dispatched) =
          IF srv.state = "spawning" THEN Len(srv.conns) - 1
          ELSE Len(srv.conns)
    /\ \A i \in 1..Len(srv.dispatched) : srv.dispatched[i] = Dispatch(i)

\* Two connections from different peers were dispatched and the loop is back
\* at accept().
C15_Witness ==
    /\ srv.state = "accepting"
    /\ Len(srv.dispatched) = 2
    /\ srv.conns[1] # srv.conns[2]

\* The step on which the poll callback of a listener ends.
PollCbEnds == cur.kind = "poll" /\ cur'.kind = "none"

C17_AbortBeforeInterrupt ==
    /\ [](suspended => ~sig_active /\ running /\ stopping /\ stop_flag)
    /\ [][(suspended' /\ ~suspended) =>
            /\ running /\ sig_active
            /\ ~sig_active' /\ stopping' /\ stop_flag']_vars

\* SIGINT arrived during the poll phase of a running loop that nobody had
\* aborted yet; the parent fiber now holds the KeyboardInterrupt.
C17_Witness ==
    /\ suspended
    /\ pc = "poll"
    /\ stopping /\ stop_flag
    /\ ~sig_active
    /\ exitBy = "none"

\* The step that ends a drain, and the step on which the idle handle runs.
DrainEnds == pc = "drain" /\ pc' = "poll"

IdleRuns == pc = "idle" /\ idle_active /\ pc' = "prepare"

\* C18: the step that ends a drain leaves the prepare handle referencing
\* exactly when the pending queue is non-empty, and leaves the idle handle
\* started when callbacks were appended during the drain; the idle handle is
\* stopped by its own first run.
C18_DrainEndHandles ==
    /\ [][DrainEnds =>
            /\ prepare_ref' = (Pending' # <<>>)
            /\ Pending' = Pending
            /\ ScheduledThisDrain # {} => idle_active'
            /\ (idle_active' /\ ~idle_active) => ScheduledThisDrain # {}]_vars
    /\ [][IdleRuns => ~idle_active']_vars

\* A drain that ran a callback has just ended with a callback appended during
\* it: prepare is referencing and the idle handle is started.
C18_Witness ==
    /\ pc = "poll" /\ cur.kind = "none"
    /\ drainFrom = Len(invoked) /\ Len(invoked) >= 1
    /\ Pending # <<>>
    /\ prepare_ref /\ idle_active

\* C19: outside a drain, a non-empty pending queue implies that the prepare
\* handle is referencing.
C19_PendingKeepsPrepareReferenced ==
    (pc # "drain" /\ Pending # <<>>) => prepare_ref

\* User code is running inside a callback of the loop: a run() made here is
\* a nested call.
Nested == cur.kind # "none"

\* C20: a run() made from inside a callback of the running loop finds running
\* true, so it returns at once when stopping is true and raises RuntimeError
\* otherwise; no step taken inside a callback moves the engine, changes
\* running or clears stopping.
C20_NestedRunRejected ==
    /\ [](Nested =>
            /\ running
            /\ run_outcome(running, stopping) =
                  IF stopping THEN "returned" ELSE "raised")
    /\ [][Nested =>
            /\ pc' = pc
            /\ running' = running
            /\ stopping => stopping']_vars

\* A callback of the drain has called abort(): a nested run() can be made
\* here, and it returns immediately.
C20_Witness ==
    /\ Nested /\ pc = "drain"
    /\ running /\ stopping
    /\ ENABLED run
    /\ run_outcome(running, stopping) = "returned"

====
